---- MODULE Spec2Model ----
(***************************************************************************)
(* Model of app/main.py: the retina classification HTTP service.           *)
(*                                                                         *)
(* Python strings are sequences of one-character strings, so that          *)
(* startswith, upper, int() and str() are computed and not assumed.        *)
(* A Python dict is the sequence of its items in iteration order; its keys *)
(* are pairwise distinct raw values.                                       *)
(***************************************************************************)
EXTENDS Integers, Sequences, FiniteSets, TLC

VARIABLES
    disk,       \* the model directory being served: its state and the artifact in it
    started,    \* "starting" | "ready" | "failed": the outcome of the startup event
    error,      \* the exception _startup raised, "" when none
    bound,      \* the module globals that are bound, a subset of {"model","processor","id2label"}
    model,      \* global model
    processor,  \* global processor
    id2label,   \* global id2label: the LabelMap, a function from integers to strings
    call,       \* the /predict request being served, with the steps it has run
    got         \* the response of the last GET request

vars == <<disk, started, error, bound, model, processor, id2label, call, got>>

-----------------------------------------------------------------------------
(* Bounds of the model *)

\* most entries of a metadata id2label mapping
MaxEntries == 5
\* most classes of a model (length of the logits)
MaxClasses == 4
\* a probability is a multiple of 1/Unit; a ProbabilityVector sums to Unit
Unit == 4

-----------------------------------------------------------------------------
(* Python strings and conversions *)

Lower == <<"a","b","c","d","e","f","g","h","i","j","k","l","m",
           "n","o","p","q","r","s","t","u","v","w","x","y","z">>
Upper == <<"A","B","C","D","E","F","G","H","I","J","K","L","M",
           "N","O","P","Q","R","S","T","U","V","W","X","Y","Z">>
Digits == <<"0","1","2","3","4","5","6","7","8","9">>

\* str.upper() on one character
UpperChar(c) ==
    IF \E i \in 1..26 : Lower[i] = c
    THEN Upper[CHOOSE i \in 1..26 : Lower[i] = c]
    ELSE c

\* str.upper()
upper(s) == [i \in 1..Len(s) |-> UpperChar(s[i])]

\* str.startswith(prefix)
startswith(s, prefix) ==
    /\ Len(s) >= Len(prefix)
    /\ SubSeq(s, 1, Len(prefix)) = prefix

IsDigit(c) == \E i \in 1..10 : Digits[i] = c
DigitValue(c) == (CHOOSE i \in 1..10 : Digits[i] = c) - 1

\* str.strip() of blanks
RECURSIVE lstrip(_)
lstrip(s) == IF s # <<>> /\ Head(s) = " " THEN lstrip(Tail(s)) ELSE s
RECURSIVE rstrip(_)
rstrip(s) == IF s # <<>> /\ s[Len(s)] = " " THEN rstrip(SubSeq(s, 1, Len(s) - 1)) ELSE s
strip(s) == rstrip(lstrip(s))

\* value of a non-empty run of decimal digits
RECURSIVE DecimalValue(_)
DecimalValue(s) ==
    IF s = <<>> THEN 0
    ELSE 10 * DecimalValue(SubSeq(s, 1, Len(s) - 1)) + DigitValue(s[Len(s)])

\* str(n) for n >= 0
RECURSIVE NatToStr(_)
NatToStr(n) ==
    IF n < 10 THEN <<Digits[n + 1]>>
    ELSE NatToStr(n \div 10) \o <<Digits[(n % 10) + 1]>>

\* str(n) of a Python int
IntToStr(n) == IF n < 0 THEN <<"-">> \o NatToStr(0 - n) ELSE NatToStr(n)

\* A raw Python value met in the metadata: an int or a str.
PyIntVal(n) == [t |-> "int", n |-> n, s |-> <<>>]
PyStrVal(s) == [t |-> "str", n |-> 0, s |-> s]

\* int(str): blanks stripped, an optional sign, then digits only; ValueError otherwise
ParseInt(s) ==
    LET b == strip(s)
        signed == b # <<>> /\ Head(b) \in {"-", "+"}
        d == IF signed THEN Tail(b) ELSE b
    IN  IF d # <<>> /\ \A i \in 1..Len(d) : IsDigit(d[i])
        THEN [ok |-> TRUE,
              n |-> IF signed /\ Head(b) = "-" THEN 0 - DecimalValue(d) ELSE DecimalValue(d)]
        ELSE [ok |-> FALSE, n |-> 0]

\* int(k) in "try: normalized[int(k)] = ... except Exception: continue"
PyInt(k) == IF k.t = "int" THEN [ok |-> TRUE, n |-> k.n] ELSE ParseInt(k.s)

\* str(v)
PyStr(v) == IF v.t = "int" THEN IntToStr(v.n) ELSE v.s

-----------------------------------------------------------------------------
(* Label Resolver *)

Fallback ==
    (0 :> <<"C","N","V">>) @@ (1 :> <<"D","M","E">>) @@
    (2 :> <<"D","R","U","S","E","N">>) @@ (3 :> <<"N","O","R","M","A","L">>)

LABEL_ == <<"L","A","B","E","L","_">>

\* normalized[n] = s on a dict
DictSet(d, n, s) == [x \in (DOMAIN d) \cup {n} |-> IF x = n THEN s ELSE d[x]]

\* the loop of get_id2label over id2label.items(): an entry whose key does not
\* parse is skipped, a later entry with the same integer key overwrites
RECURSIVE Normalize(_, _)
Normalize(items, normalized) ==
    IF items = <<>> THEN normalized
    ELSE LET k == Head(items).k
             v == Head(items).v
         IN  Normalize(Tail(items),
                       IF PyInt(k).ok THEN DictSet(normalized, PyInt(k).n, PyStr(v))
                       ELSE normalized)

\* all(str(v).upper().startswith("LABEL_") for v in normalized.values())
\* variant: any(...) in place of all(...)
looks_generic_any(normalized) ==
    \E n \in DOMAIN normalized : startswith(upper(normalized[n]), LABEL_)

\* variant: the prefix test without upper()
looks_generic_lower(normalized) ==
    \A n \in DOMAIN normalized : startswith(normalized[n], LABEL_)

looks_generic(normalized) ==
    \A n \in DOMAIN normalized : startswith(upper(normalized[n]), LABEL_)

\* get_id2label, on the id2label attribute of model.config:
\* cfg.t is "none" (no attribute), "list" (not a dict) or "dict" with cfg.items
get_id2label(cfg) ==
    IF cfg.t = "dict" /\ Len(cfg.items) > 0
    THEN LET normalized == Normalize(cfg.items, <<>>)
         IN  IF Cardinality(DOMAIN normalized) = Len(cfg.items)
             THEN IF looks_generic(normalized) /\ Cardinality(DOMAIN normalized) = 4
                  THEN Fallback
                  ELSE normalized
             ELSE Fallback
    ELSE Fallback

-----------------------------------------------------------------------------
(* Result Formatter *)

Min(a, b) == IF a < b THEN a ELSE b
Max(a, b) == IF a > b THEN a ELSE b

\* top_k = max(1, min(top_k, probs.shape[-1]))
\* variant: the clamp without its floor of 1
ClampTopK_nofloor(top_k, n) == Min(top_k, n)

ClampTopK(top_k, n) == Max(1, Min(top_k, n))

\* The index sequences torch.topk(probs, k) can return (largest=True,
\* sorted=True): the k largest entries in descending order. The order among
\* equal entries is not documented by the library, so every order is possible.
\* probs is a function on the class indices 0..n-1; rem are the indices left.
RECURSIVE BottomKFrom(_, _, _)
BottomKFrom(probs, k, rem) ==
    IF k <= 0 \/ rem = {} THEN {<<>>}
    ELSE LET worst == {i \in rem : \A j \in rem : probs[i] <= probs[j]}
         IN  UNION {{<<i>> \o t : t \in BottomKFrom(probs, k - 1, rem \ {i})} : i \in worst}

RECURSIVE TopKFrom(_, _, _)
TopKFrom(probs, k, rem) ==
    IF k <= 0 \/ rem = {} THEN {<<>>}
    ELSE LET best == {i \in rem : \A j \in rem : probs[j] <= probs[i]}
         IN  UNION {{<<i>> \o t : t \in TopKFrom(probs, k - 1, rem \ {i})} : i \in best}

\* variant: topk with largest=False
topk_smallest(probs, k) == BottomKFrom(probs, k, DOMAIN probs)

topk(probs, k) == TopKFrom(probs, k, DOMAIN probs)

\* id2label.get(int(idx), str(idx))
\* variant: a fixed default in place of str(idx)
LabelOf_unknown(idx) ==
    IF idx \in DOMAIN id2label THEN id2label[idx] ELSE <<"?">>

LabelOf(idx) ==
    IF idx \in DOMAIN id2label THEN id2label[idx] ELSE IntToStr(idx)

\* format_predictions: the possible outcomes, each with the indices topk gave
\* and the list of {"label", "score"} built from them
format_predictions(probs, top_k) ==
    LET k == ClampTopK(top_k, Cardinality(DOMAIN probs))
    IN  {[indices |-> ix,
          results |-> [i \in 1..Len(ix) |->
                          [label |-> LabelOf(ix[i]), score |-> probs[ix[i]]]]]
         : ix \in topk(probs, k)}

-----------------------------------------------------------------------------
(* Inputs *)

\* keys of a metadata mapping, in the order the dict iterates over them
KeyPool ==
    << PyStrVal(<<"0">>), PyStrVal(<<"1">>), PyStrVal(<<"2">>), PyStrVal(<<" ","3">>),
       PyStrVal(<<"0","1">>), PyStrVal(<<"x">>), PyStrVal(<<"-","1">>), PyIntVal(1) >>

ValuePool ==
    { PyStrVal(<<"L","A","B","E","L","_","0">>), PyStrVal(<<"l","a","b","e","l","_","1">>),
      PyStrVal(<<"c","a","t">>), PyIntVal(7) }

RECURSIVE SortedSeq(_)
SortedSeq(S) ==
    IF S = {} THEN <<>>
    ELSE LET m == CHOOSE x \in S : \A y \in S : x <= y
         IN  <<m>> \o SortedSeq(S \ {m})

\* the dict with the keys KeyPool[i], i in S, and the values f[i]
DictOf(S, f) ==
    LET order == SortedSeq(S)
    IN  [i \in 1..Len(order) |-> [k |-> KeyPool[order[i]], v |-> f[order[i]]]]

NoneCfg == [t |-> "none", items |-> <<>>]
ListCfg == [t |-> "list", items |-> <<>>]
DictCfg(items) == [t |-> "dict", items |-> items]

\* the key sets of the metadata mappings with at most MaxEntries entries
KeySets == {T \in SUBSET (1..Len(KeyPool)) : Cardinality(T) <= MaxEntries}

GenericUpper == PyStrVal(<<"L","A","B","E","L","_","0">>)
GenericLower == PyStrVal(<<"l","a","b","e","l","_","1">>)
Cat == PyStrVal(<<"c","a","t">>)

\* the artifacts the service is run on
ServerConfigs ==
    { NoneCfg,
      DictCfg(<<>>),
      DictCfg(DictOf({1, 2, 3, 4}, (1 :> GenericUpper) @@ (2 :> GenericLower) @@ (3 :> GenericUpper) @@ (4 :> GenericUpper))),
      DictCfg(DictOf({1, 3}, (1 :> Cat) @@ (3 :> PyIntVal(7)))),
      DictCfg(DictOf({2, 6}, (2 :> Cat) @@ (6 :> Cat))),
      DictCfg(DictOf({7, 8}, (7 :> Cat) @@ (8 :> GenericUpper))) }

DirStates == {"absent", "incomplete", "ok"}

Disks(configs, classes) ==
    {[dir |-> "ok", config |-> c, num_labels |-> n] : c \in configs, n \in classes}
    \cup {[dir |-> d, config |-> NoneCfg, num_labels |-> 1] : d \in {"absent", "incomplete"}}

RECURSIVE SumTo(_, _)
SumTo(p, n) == IF n < 0 THEN 0 ELSE p[n] + SumTo(p, n - 1)

\* the outputs of softmax over n classes
ProbVectors(n) == {p \in [0..(n - 1) -> 0..Unit] : SumTo(p, n - 1) = Unit}

NoType == [none |-> TRUE, s |-> <<>>]
Type(s) == [none |-> FALSE, s |-> s]

ContentTypes ==
    { NoType, Type(<<>>),
      Type(<<"i","m","a","g","e","/","p","n","g">>),
      Type(<<"i","m","a","g","e">>),
      Type(<<"I","m","a","g","e","/","p","n","g">>),
      Type(<<"t","e","x","t","/","p","l","a","i","n">>) }

TopKs == (-1..MaxClasses) \cup {100}

\* an upload: its declared content type, whether PIL can decode its bytes,
\* and the probabilities the model gives for the decoded image
Uploads(n) ==
    LET some == CHOOSE p \in ProbVectors(n) : TRUE
    IN  {[content_type |-> c, decodable |-> d, probs |-> some]
            : c \in ContentTypes, d \in BOOLEAN}
        \cup {[content_type |-> Type(<<"i","m","a","g","e","/","p","n","g">>),
               decodable |-> TRUE, probs |-> p] : p \in ProbVectors(n)}

-----------------------------------------------------------------------------
(* The service *)

Globals == {"model", "processor", "id2label"}

\* the values of the globals before _startup binds them
NoModel == [config |-> NoneCfg, num_labels |-> 0, training |-> TRUE]
NoProcessor == "unbound"
NoLabels == <<>>

Idle ==
    [pc |-> "idle", file |-> [content_type |-> NoType, decodable |-> FALSE, probs |-> <<>>],
     top_k |-> 0, steps |-> <<>>, indices |-> <<>>,
     response |-> [status |-> 0, detail |-> "", predictions |-> <<>>]]

NoResponse == [route |-> "", status |-> 0, json |-> <<>>]

\* load_model_and_processor: the exception it raises, or the model and the
\* processor it returns (model.eval() clears training)
\* variant: no os.path.isdir test
load_model_and_processor_unchecked(dir) ==
    [raised |-> "", processor |-> "AutoProcessor",
     model |-> [config |-> dir.config, num_labels |-> dir.num_labels, training |-> FALSE]]

load_model_and_processor(dir) ==
    IF dir.dir = "absent"
    THEN [raised |-> "Model directory not found", processor |-> NoProcessor, model |-> NoModel]
    ELSE IF dir.dir = "incomplete"
    THEN [raised |-> "from_pretrained failed", processor |-> NoProcessor, model |-> NoModel]
    ELSE [raised |-> "", processor |-> "AutoProcessor",
          model |-> [config |-> dir.config, num_labels |-> dir.num_labels, training |-> FALSE]]

\* _startup, run once by the server before it serves any request; when it
\* raises, the server reports the failure and exits without serving
Startup ==
    /\ started = "starting"
    /\ LET loaded == load_model_and_processor(disk)
       IN  IF loaded.raised # ""
           THEN /\ started' = "failed"
                /\ error' = loaded.raised
                /\ UNCHANGED <<bound, model, processor, id2label>>
           ELSE /\ started' = "ready"
                /\ model' = loaded.model
                /\ processor' = loaded.processor
                /\ id2label' = get_id2label(loaded.model.config)
                /\ bound' = Globals
                /\ UNCHANGED error
    /\ UNCHANGED <<disk, call, got>>

\* GET /health
Health ==
    /\ started = "ready"
    /\ got' = [route |-> "/health", status |-> 200,
               json |-> (<<"s","t","a","t","u","s">> :> <<"o","k">>)]
    /\ UNCHANGED <<disk, started, error, bound, model, processor, id2label, call>>

\* {str(k): v for k, v in id2label.items()}
labels_json ==
    LET keys == {IntToStr(k) : k \in DOMAIN id2label}
    IN  [s \in keys |-> id2label[CHOOSE k \in DOMAIN id2label : IntToStr(k) = s]]

\* GET /labels
Labels ==
    /\ started = "ready"
    /\ got' = [route |-> "/labels", status |-> 200, json |-> labels_json]
    /\ UNCHANGED <<disk, started, error, bound, model, processor, id2label, call>>

\* GET /
IndexForm ==
    /\ started = "ready"
    /\ got' = [route |-> "/", status |-> 200, json |-> <<>>]
    /\ UNCHANGED <<disk, started, error, bound, model, processor, id2label, call>>

BadRequest(detail) == [status |-> 400, detail |-> detail, predictions |-> <<>>]

\* POST /predict up to "await file.read()": the content type check
\* variant: no content type test
PredictBegin_unchecked(file, top_k) ==
    /\ started = "ready"
    /\ call.pc = "idle"
    /\ call' = [Idle EXCEPT !.pc = "reading", !.file = file, !.top_k = top_k,
                            !.steps = <<"content_type">>]
    /\ UNCHANGED <<disk, started, error, bound, model, processor, id2label, got>>

PredictBegin(file, top_k) ==
    /\ started = "ready"
    /\ call.pc = "idle"
    /\ IF file.content_type.none
          \/ ~startswith(file.content_type.s, <<"i","m","a","g","e","/">>)
       THEN call' = [Idle EXCEPT !.pc = "done", !.file = file, !.top_k = top_k,
                                 !.steps = <<"content_type">>,
                                 !.response = BadRequest("File must be an image")]
       ELSE call' = [Idle EXCEPT !.pc = "reading", !.file = file, !.top_k = top_k,
                                 !.steps = <<"content_type">>]
    /\ UNCHANGED <<disk, started, error, bound, model, processor, id2label, got>>

\* POST /predict after the read: decode, preprocess, forward pass, softmax,
\* format_predictions
\* variant: the label found for the best class is stored in the global id2label
PredictFinish_caching ==
    /\ call.pc = "reading"
    /\ call.file.decodable
    /\ \E out \in format_predictions(call.file.probs, call.top_k) :
          /\ call' = [call EXCEPT !.pc = "done", !.indices = out.indices,
                         !.steps = @ \o <<"read", "decode", "preprocess", "forward",
                                          "softmax", "format">>,
                         !.response = [status |-> 200, detail |-> "",
                                       predictions |-> out.results]]
          /\ id2label' = [i \in DOMAIN id2label \cup {out.indices[1]} |-> LabelOf(i)]
    /\ UNCHANGED <<disk, started, error, bound, model, processor, got>>

PredictFinish ==
    /\ call.pc = "reading"
    /\ IF ~call.file.decodable
       THEN call' = [call EXCEPT !.pc = "done",
                                 !.steps = @ \o <<"read", "decode">>,
                                 !.response = BadRequest("Invalid image file")]
       ELSE \E out \in format_predictions(call.file.probs, call.top_k) :
               call' = [call EXCEPT !.pc = "done", !.indices = out.indices,
                           !.steps = @ \o <<"read", "decode", "preprocess", "forward",
                                            "softmax", "format">>,
                           !.response = [status |-> 200, detail |-> "",
                                         predictions |-> out.results]]
    /\ UNCHANGED <<disk, started, error, bound, model, processor, id2label, got>>

\* the response is sent and the request is over
Deliver ==
    /\ call.pc = "done"
    /\ call' = Idle
    /\ UNCHANGED <<disk, started, error, bound, model, processor, id2label, got>>

Predict ==
    /\ started = "ready"
    /\ call.pc = "idle"
    /\ \E file \in Uploads(model.num_labels), top_k \in TopKs : PredictBegin(file, top_k)

InitWith(d) ==
    /\ disk = d
    /\ started = "starting"
    /\ error = ""
    /\ bound = {}
    /\ model = NoModel
    /\ processor = NoProcessor
    /\ id2label = NoLabels
    /\ call = Idle
    /\ got = NoResponse

Init == \E d \in Disks(ServerConfigs, 1..MaxClasses) : InitWith(d)

Next ==
    \/ Startup
    \/ Health
    \/ Labels
    \/ IndexForm
    \/ Predict
    \/ PredictFinish
    \/ Deliver

Spec == Init /\ [][Next]_vars

\* the Label Resolver alone, on every metadata mapping of the bounds
InitResolver ==
    \/ \E d \in Disks({NoneCfg, ListCfg}, {MaxClasses}) : InitWith(d)
    \/ \E S \in KeySets : \E f \in [S -> ValuePool] :
          InitWith([dir |-> "ok", config |-> DictCfg(DictOf(S, f)), num_labels |-> MaxClasses])

NextResolver == Startup

SpecResolver == InitResolver /\ [][NextResolver]_vars

-----------------------------------------------------------------------------
(* Properties *)

IMAGE_ == <<"i","m","a","g","e","/">>

\* the content type is present and starts with "image/"
IsImageType(ct) ==
    /\ ~ct.none
    /\ Len(ct.s) >= 6
    /\ \A i \in 1..6 : ct.s[i] = IMAGE_[i]

Ran(step) == \E i \in 1..Len(call.steps) : call.steps[i] = step

Answered == call.pc = "done"
Succeeded == call.pc = "done" /\ call.response.status = 200
ClassCount == Cardinality(DOMAIN call.file.probs)
Predictions == call.response.predictions

\* C1: /predict checks the content type before it decodes anything: a missing
\* or non-image content type is answered 400 "File must be an image", an image
\* content type with undecodable bytes 400 "Invalid image file"; in both cases
\* neither preprocessing nor a forward pass has run and no prediction is returned.
C1_ContentTypeThenDecode ==
    /\ call.pc = "reading" => call.steps = <<"content_type">>
    /\ Answered /\ ~IsImageType(call.file.content_type) =>
          /\ call.response.status = 400
          /\ call.response.detail = "File must be an image"
          /\ call.response.predictions = <<>>
          /\ call.steps = <<"content_type">>
    /\ Answered /\ IsImageType(call.file.content_type) /\ ~call.file.decodable =>
          /\ call.response.status = 400
          /\ call.response.detail = "Invalid image file"
          /\ call.response.predictions = <<>>
          /\ call.steps = <<"content_type", "read", "decode">>

\* a decodable upload declared text/plain has been refused
C1_Witness ==
    /\ Answered
    /\ call.file.content_type = Type(<<"t","e","x","t","/","p","l","a","i","n">>)
    /\ call.file.decodable
    /\ call.response.status = 400

\* C2: for every probability vector and every integer top_k, format_predictions
\* returns, without error, exactly min(max(top_k, 1), class_count) predictions.
C2_LengthIsClampedTopK ==
    /\ call.pc = "reading" /\ call.file.decodable =>
          format_predictions(call.file.probs, call.top_k) # {}
    /\ Answered /\ IsImageType(call.file.content_type) /\ call.file.decodable =>
          /\ call.response.status = 200
          /\ Len(Predictions) =
                (IF (IF call.top_k > 1 THEN call.top_k ELSE 1) < ClassCount
                 THEN (IF call.top_k > 1 THEN call.top_k ELSE 1)
                 ELSE ClassCount)
          /\ call.top_k <= 0 => Len(Predictions) = 1
          /\ call.top_k >= ClassCount => Len(Predictions) = ClassCount

\* top_k = 100 on a 4-class model has returned 4 predictions
C2_Witness ==
    /\ Succeeded
    /\ call.top_k = 100
    /\ ClassCount = 4
    /\ Len(Predictions) = 4

\* C3: the predictions are the k highest-scoring classes in descending order:
\* each score is >= the next, no class index is returned twice, and every class
\* that is not returned scores <= the smallest returned score.
C3_TopKDescending ==
    Succeeded =>
        LET ix == call.indices
            p == call.file.probs
            returned == {ix[i] : i \in 1..Len(ix)}
        IN  /\ Len(ix) = Len(Predictions)
            /\ \A i \in 1..Len(ix) : ix[i] \in DOMAIN p /\ Predictions[i].score = p[ix[i]]
            /\ \A i \in 1..(Len(ix) - 1) : Predictions[i].score >= Predictions[i + 1].score
            /\ \A i, j \in 1..Len(ix) : i # j => ix[i] # ix[j]
            /\ \A c \in (DOMAIN p) \ returned :
                  \A i \in 1..Len(ix) : p[c] <= Predictions[i].score

\* two predictions with different scores were returned and a class with a
\* positive score was left out
C3_Witness ==
    /\ Succeeded
    /\ Len(Predictions) = 2
    /\ Predictions[1].score > Predictions[2].score
    /\ \E c \in DOMAIN call.file.probs :
          /\ \A i \in 1..2 : call.indices[i] # c
          /\ call.file.probs[c] > 0

\* C7: the label of a selected class index is LabelMap[idx] when idx is a key
\* of the LabelMap and the decimal string of idx otherwise; an index missing
\* from the LabelMap does not make the request fail.
C7_LabelOrIndexString ==
    /\ Answered /\ IsImageType(call.file.content_type) /\ call.file.decodable => Succeeded
    /\ Succeeded =>
          \A i \in 1..Len(Predictions) :
              LET idx == call.indices[i]
              IN  IF idx \in DOMAIN id2label
                  THEN Predictions[i].label = id2label[idx]
                  ELSE /\ idx \in 0..9
                       /\ Predictions[i].label = <<Digits[idx + 1]>>

\* a prediction was returned for a class index the LabelMap does not have
C7_Witness ==
    /\ Succeeded
    /\ \E i \in 1..Len(Predictions) :
          /\ call.indices[i] \notin DOMAIN id2label
          /\ Predictions[i].label = IntToStr(call.indices[i])

\* C8: with the model directory missing, startup fails with "Model directory
\* not found" before any global is bound and the service never becomes ready;
\* no request is handled before startup has completed or after it has failed.
C8_FailFastOnMissingDirectory ==
    /\ disk.dir = "absent" => started # "ready"
    /\ disk.dir = "absent" /\ started = "failed" =>
          /\ error = "Model directory not found"
          /\ bound = {}
          /\ model = NoModel /\ processor = NoProcessor /\ id2label = NoLabels
    /\ started # "ready" => call = Idle /\ got = NoResponse

\* startup has failed on a missing directory
C8_Witness ==
    /\ disk.dir = "absent"
    /\ started = "failed"
    /\ error = "Model directory not found"

\* the LabelMap the metadata on disk resolves to
StartupLabels == get_id2label(disk.config)

FallbackCase ==
    \/ disk.config.t # "dict"
    \/ Len(disk.config.items) = 0
    \/ \E i \in 1..Len(disk.config.items) : ~PyInt(disk.config.items[i].k).ok

\* C9: the model and the LabelMap are written once, by startup; no request
\* changes them afterwards, so every /labels response is the LabelMap computed
\* at startup with its keys rendered as strings, of 4 entries in the fallback case.
C9_LabelMapImmutable ==
    /\ [][(model' # model \/ id2label' # id2label \/ bound' # bound)
              => (started = "starting" /\ started' = "ready")]_vars
    /\ [][started = "ready" => started' = "ready"]_vars
    /\ [](started = "ready" => bound = Globals /\ id2label = StartupLabels)
    /\ [](got.route = "/labels" =>
            /\ DOMAIN got.json = {IntToStr(k) : k \in DOMAIN StartupLabels}
            /\ \A k \in DOMAIN StartupLabels : got.json[IntToStr(k)] = StartupLabels[k]
            /\ Cardinality(DOMAIN got.json) = Cardinality(DOMAIN StartupLabels)
            /\ FallbackCase => Cardinality(DOMAIN got.json) = 4)

\* /labels was answered in the fallback case while a prediction had been made
C9_Witness ==
    /\ got.route = "/labels"
    /\ FallbackCase
    /\ Cardinality(DOMAIN got.json) = 4
    /\ Succeeded

-----------------------------------------------------------------------------
(* Properties of the Label Resolver *)

Items == disk.config.items
Resolved == started = "ready"
IsMapping == disk.config.t = "dict"
KeyOf(i) == PyInt(Items[i].k)
LabelText(i) == PyStr(Items[i].v)
AllKeysParse == \A i \in 1..Len(Items) : KeyOf(i).ok
KeysDistinct == \A i, j \in 1..Len(Items) : i # j => KeyOf(i).n # KeyOf(j).n

\* the label starts with "LABEL_" whatever the case of its letters
GenericLabel(i) ==
    /\ Len(LabelText(i)) >= 6
    /\ \A c \in 1..6 : UpperChar(LabelText(i)[c]) = LABEL_[c]

IsGeneric == Len(Items) = 4 /\ \A i \in 1..Len(Items) : GenericLabel(i)

\* C4: a metadata mapping of exactly 4 entries whose keys all parse as integers
\* and whose labels all start, in any case, with "LABEL_" resolves to the fixed
\* domain mapping, whatever its keys and suffixes.
C4_GenericToDomainLabels ==
    Resolved /\ IsMapping /\ AllKeysParse /\ IsGeneric => id2label = Fallback

\* a generic mapping with a lower-case label was resolved
C4_Witness ==
    /\ Resolved /\ IsMapping /\ AllKeysParse /\ IsGeneric
    /\ \E i \in 1..Len(Items) : Items[i].v = GenericLower
    /\ id2label = Fallback

\* the result has exactly one entry int(k) -> str(v) for each input entry
Unchanged ==
    /\ \A i \in 1..Len(Items) :
          KeyOf(i).n \in DOMAIN id2label /\ id2label[KeyOf(i).n] = LabelText(i)
    /\ Cardinality(DOMAIN id2label) = Len(Items)

\* C5 as stated: every non-empty, fully parseable, non-generic mapping is
\* returned unchanged up to normalization, one entry per input entry.
C5_NonGenericUnchanged_AsStated ==
    Resolved /\ IsMapping /\ Len(Items) > 0 /\ AllKeysParse /\ ~IsGeneric => Unchanged

\* C5 amended: every non-empty, non-generic mapping whose keys parse to pairwise
\* distinct integers is returned unchanged up to normalization, one entry
\* int(k) -> str(v) per input entry.
C5_NonGenericUnchanged ==
    Resolved /\ IsMapping /\ Len(Items) > 0 /\ AllKeysParse /\ KeysDistinct /\ ~IsGeneric
        => Unchanged

\* a mapping of 5 generically named entries was returned as it is
C5_Witness ==
    /\ Resolved /\ IsMapping /\ AllKeysParse /\ KeysDistinct
    /\ Len(Items) = 5
    /\ \A i \in 1..Len(Items) : GenericLabel(i)
    /\ Unchanged

\* C6 as stated: a missing, non-mapping or empty metadata mapping, or one with
\* a key that does not parse as a non-negative integer, resolves to the fixed
\* 4-class fallback.
C6_FallbackOnUnparseable_AsStated ==
    Resolved /\ ( \/ ~IsMapping
                  \/ Len(Items) = 0
                  \/ \E i \in 1..Len(Items) : ~KeyOf(i).ok \/ KeyOf(i).n < 0 )
        => id2label = Fallback

====
